---- MODULE Spec2Model ----
(***************************************************************************)
(* County-health lookup service (app.py) and its CSV loader                *)
(* (csv_to_sqlite.py).                                                     *)
(*                                                                         *)
(* A string is a sequence of one-character strings, so that len(), [:2],   *)
(* isdigit(), lower(), strip() and string comparison are computed          *)
(* character by character.  A Python / JSON / SQLite value is a tagged     *)
(* record: Str(cs), None (Python None, JSON null, SQL NULL), Num (a number)*)
(* or List (a JSON array).  Absent marks a key that is not in a dict.      *)
(***************************************************************************)
EXTENDS Integers, Sequences, FiniteSets, TLC

VARIABLES
    proc,                    \* which program runs: "service" or "loader"
    zip_county,              \* table zip_county: a set of rows
    county_health_rankings,  \* table county_health_rankings: a set of rows
    pc,                      \* position of the request being handled
    op,                      \* the operation being run
    req,                     \* the HTTP request
    response,                \* the HTTP response (status 0: none yet)
    db,                      \* the local `db` of the running function is an open connection
    open_conns,              \* connections opened and not yet closed
    accesses,                \* connections opened + statements executed for this request
    county_results,          \* get_county_data: county_results
    idx,                     \* get_county_data: position of the for loop
    results,                 \* get_county_data: results
    retval,                  \* what the storage function returned
    exc,                     \* an exception other than sqlite3.Error is propagating
    fault,                   \* a sqlite3.Error was raised while the operation ran
    l_pc,                    \* loader: position in main()
    csv,                     \* loader: the CSV file given on the command line
    table,                   \* loader: the target table as the connection sees it
    disk,                    \* loader: the target table as committed to the store
    disk0,                   \* loader: the target table before the invocation
    in_txn,                  \* loader: conn.in_transaction
    headers,                 \* loader: headers
    row_i,                   \* loader: rows of the CSV consumed by the reader
    batch,                   \* loader: batch
    conn_open,               \* loader: conn is open
    committed,               \* loader: conn.commit() returned
    exit_code                \* loader: process exit status (-1: still running)

svars == <<zip_county, county_health_rankings, pc, op, req, response, db, open_conns,
           accesses, county_results, idx, results, retval, exc, fault>>
lvars == <<l_pc, csv, table, disk, disk0, in_txn, headers, row_i, batch, conn_open,
           committed, exit_code>>
vars == <<proc, svars, lvars>>

----------------------------------------------------------------------------
(* Values and strings *)

Str(cs) == [t |-> "str", s |-> cs]
None == [t |-> "null", s |-> <<>>]
Num == [t |-> "num", s |-> <<>>]
List == [t |-> "list", s |-> <<>>]
Absent == [t |-> "absent", s |-> <<>>]

\* Code points of the characters used.  "U+0663" and "U+00B2" stand for the single
\* characters ARABIC-INDIC DIGIT THREE and SUPERSCRIPT TWO.
Ord ==
  (" " :> 32) @@ ("-" :> 45) @@ ("0" :> 48) @@ ("1" :> 49) @@ ("2" :> 50) @@ ("3" :> 51) @@
  ("4" :> 52) @@ ("5" :> 53) @@ ("6" :> 54) @@ ("7" :> 55) @@ ("8" :> 56) @@ ("9" :> 57) @@
  ("A" :> 65) @@ ("C" :> 67) @@ ("D" :> 68) @@ ("E" :> 69) @@ ("K" :> 75) @@ ("M" :> 77) @@
  ("N" :> 78) @@ ("P" :> 80) @@ ("S" :> 83) @@ ("U" :> 85) @@ ("V" :> 86) @@ ("Y" :> 89) @@
  ("Z" :> 90) @@ ("a" :> 97) @@ ("b" :> 98) @@ ("c" :> 99) @@ ("d" :> 100) @@ ("e" :> 101) @@
  ("f" :> 102) @@ ("g" :> 103) @@ ("h" :> 104) @@ ("i" :> 105) @@ ("l" :> 108) @@ ("m" :> 109) @@
  ("n" :> 110) @@ ("o" :> 111) @@ ("p" :> 112) @@ ("r" :> 114) @@ ("s" :> 115) @@ ("t" :> 116) @@
  ("u" :> 117) @@ ("v" :> 118) @@ ("x" :> 120) @@ ("y" :> 121) @@ ("z" :> 122) @@
  ("U+00B2" :> 178) @@ ("U+0663" :> 1635)

AsciiDigits == {"0", "1", "2", "3", "4", "5", "6", "7", "8", "9"}

\* Python str < str, SQLite BINARY collation: lexicographic by code point.
RECURSIVE StrLess(_, _)
StrLess(a, b) ==
    IF b = <<>> THEN FALSE
    ELSE IF a = <<>> THEN TRUE
    ELSE IF Ord[Head(a)] # Ord[Head(b)] THEN Ord[Head(a)] < Ord[Head(b)]
    ELSE StrLess(Tail(a), Tail(b))

\* The year span read as a decimal number (what the ORDER BY does not do).
RECURSIVE NumericValue(_)
NumericValue(cs) ==
    IF cs = <<>> THEN 0
    ELSE IF cs[Len(cs)] \in AsciiDigits
         THEN 10 * NumericValue(SubSeq(cs, 1, Len(cs) - 1)) + (Ord[cs[Len(cs)]] - 48)
         ELSE NumericValue(SubSeq(cs, 1, Len(cs) - 1))

\* str.isdigit(): every character has Unicode property Digit or Decimal, and
\* there is at least one character.
isdigit(cs) ==
    /\ Len(cs) >= 1
    /\ \A i \in 1..Len(cs) : cs[i] \in AsciiDigits \cup {"U+0663", "U+00B2"}

\* s[:n]
Prefix(cs, n) == SubSeq(cs, 1, IF Len(cs) < n THEN Len(cs) ELSE n)

\* All the orders in which the elements of a finite set can be listed.
Perms(S) ==
    {p \in [1..Cardinality(S) -> S] : \A i, j \in 1..Cardinality(S) : i # j => p[i] # p[j]}

----------------------------------------------------------------------------
(* Measure Catalog *)

ViolentCrimeRate == <<"V","i","o","l","e","n","t"," ","c","r","i","m","e"," ","r","a","t","e">>
Unemployment == <<"U","n","e","m","p","l","o","y","m","e","n","t">>
ChildrenInPoverty == <<"C","h","i","l","d","r","e","n"," ","i","n"," ","p","o","v","e","r","t","y">>
DiabeticScreening == <<"D","i","a","b","e","t","i","c"," ","s","c","r","e","e","n","i","n","g">>
MammographyScreening == <<"M","a","m","m","o","g","r","a","p","h","y"," ","s","c","r","e","e","n","i","n","g">>
PreventableHospitalStays == <<"P","r","e","v","e","n","t","a","b","l","e"," ","h","o","s","p","i","t","a","l"," ","s","t","a","y","s">>
Uninsured == <<"U","n","i","n","s","u","r","e","d">>
SexuallyTransmittedInfections == <<"S","e","x","u","a","l","l","y"," ","t","r","a","n","s","m","i","t","t","e","d"," ","i","n","f","e","c","t","i","o","n","s">>
PhysicalInactivity == <<"P","h","y","s","i","c","a","l"," ","i","n","a","c","t","i","v","i","t","y">>
AdultObesity == <<"A","d","u","l","t"," ","o","b","e","s","i","t","y">>
PrematureDeath == <<"P","r","e","m","a","t","u","r","e"," ","D","e","a","t","h">>
DailyFineParticulateMatter == <<"D","a","i","l","y"," ","f","i","n","e"," ","p","a","r","t","i","c","u","l","a","t","e"," ","m","a","t","t","e","r">>

VALID_MEASURES ==
    {ViolentCrimeRate, Unemployment, ChildrenInPoverty, DiabeticScreening,
     MammographyScreening, PreventableHospitalStays, Uninsured,
     SexuallyTransmittedInfections, PhysicalInactivity, AdultObesity, PrematureDeath,
     DailyFineParticulateMatter}

\* list(S) without sorting: the elements in some order.
RECURSIVE UnsortedList(_)
UnsortedList(S) ==
    IF S = {} THEN <<>>
    ELSE LET m == CHOOSE x \in S : \A y \in S : Len(y) <= Len(x)
         IN  <<m>> \o UnsortedList(S \ {m})

\* sorted(list(S)) for a set of strings.
RECURSIVE sorted(_)
sorted(S) ==
    IF S = {} THEN <<>>
    ELSE LET m == CHOOSE x \in S : \A y \in S : x = y \/ StrLess(x, y)
         IN  <<m>> \o sorted(S \ {m})

----------------------------------------------------------------------------
(* The store the service reads *)

Kent == <<"K","e","n","t">>
Essex == <<"E","s","s","e","x">>
NY == <<"N","Y">>
MA == <<"M","A">>

\* The SELECT list of the measure query, lower-cased (cursor.description).
columns ==
    <<"confidence_interval_lower_bound", "confidence_interval_upper_bound", "county",
      "county_code", "data_release_year", "denominator", "fipscode", "measure_id",
      "measure_name", "numerator", "raw_value", "state", "state_code", "year_span">>

ColumnSet == {columns[i] : i \in 1..Len(columns)}

HealthRow(county, state, state_code, measure, year_span, raw_value) ==
    [confidence_interval_lower_bound |-> None,
     confidence_interval_upper_bound |-> None,
     county |-> county,
     county_code |-> Str(<<"1">>),
     data_release_year |-> Str(<<"2","0">>),
     denominator |-> None,
     fipscode |-> Str(<<"3","6","1">>),
     measure_id |-> Str(<<"1","1">>),
     measure_name |-> measure,
     numerator |-> None,
     raw_value |-> raw_value,
     state |-> state,
     state_code |-> state_code,
     year_span |-> year_span]

\* The rows the tables are drawn from.  All cells are text or NULL, as the loader
\* stores them (TEXT columns, empty cells as NULL).
HealthRows ==
    {HealthRow(Str(Kent), Str(NY), Str(<<"3","6">>), Str(AdultObesity), Str(<<"9">>), Str(<<"5">>)),
     HealthRow(Str(Kent), Str(MA), Str(MA), Str(AdultObesity), Str(<<"1","0">>), None),
     HealthRow(Str(Kent), Str(MA), Str(<<"M","A","0","1">>), Str(AdultObesity), Str(<<"9">>), None),
     HealthRow(Str(Essex), Str(NY), Str(<<"3","6">>), Str(AdultObesity), None, Str(<<"5">>)),
     HealthRow(Str(Kent), Str(NY), Str(<<"3","6">>), Str(Unemployment), Str(<<"1","0">>), Str(<<"5">>))}

ZipRow(zip, county, state_abbreviation, county_code) ==
    [zip |-> zip, county |-> county, state_abbreviation |-> state_abbreviation,
     county_code |-> county_code]

Zip10001 == <<"1","0","0","0","1">>
Zip02139 == <<"0","2","1","3","9">>
Zip99999 == <<"9","9","9","9","9">>
ZipUnicode == <<"U+0663","U+0663","U+0663","U+0663","U+0663">>

ZipRows ==
    {ZipRow(Str(Zip10001), Str(Kent), Str(NY), Str(<<"M","A","0","1">>)),
     ZipRow(Str(Zip10001), Str(Essex), Str(NY), Str(<<"3","6","0","3","1">>)),
     ZipRow(Str(Zip02139), Str(Essex), Str(MA), None)}

MaxZipRows == 2
MaxHealthRows == 3

----------------------------------------------------------------------------
(* Requests *)

teapot == <<"t","e","a","p","o","t">>

CoffeeInputs == {Absent, Str(teapot), Str(<<"l","a","t","t","e">>)}
ZipInputs ==
    {Absent, Num, Str(Zip10001), Str(Zip02139), Str(Zip99999), Str(ZipUnicode),
     Str(<<"1","2","3","4">>), Str(<<"1","0","0","0","a">>)}
MeasureInputs ==
    {Absent, Num, List, Str(AdultObesity), Str(Unemployment),
     Str(<<"a","d","u","l","t"," ","o","b","e","s","i","t","y">>)}

Data(c, z, m) == [coffee |-> c, zip |-> z, measure_name |-> m]
NoData == Data(Absent, Absent, Absent)

\* is_json: the Content-Type is a JSON one.  body: what the bytes of the body are:
\* "object" (a JSON object, whose members are data), "nonobject" (another JSON
\* value) or "malformed" (not JSON).
Requests ==
    {[is_json |-> TRUE, body |-> "object", data |-> Data(c, z, m)] :
        c \in CoffeeInputs, z \in ZipInputs, m \in MeasureInputs}
    \cup {[is_json |-> TRUE, body |-> b, data |-> NoData] : b \in {"nonobject", "malformed"}}
    \cup {[is_json |-> FALSE, body |-> "object", data |-> d] :
            d \in {Data(Str(teapot), Absent, Absent),
                   Data(Absent, Str(Zip10001), Str(AdultObesity))}}

NoRequest == [is_json |-> FALSE, body |-> "none", data |-> NoData]

----------------------------------------------------------------------------
(* Responses *)

NoResponse ==
    [status |-> 0, kind |-> "none", error |-> "", valid_measures |-> <<>>, results |-> <<>>]
ErrorResponse(status, msg) ==
    [status |-> status, kind |-> "error", error |-> msg, valid_measures |-> <<>>,
     results |-> <<>>]
EmptyResponse(status) ==
    [status |-> status, kind |-> "empty", error |-> "", valid_measures |-> <<>>,
     results |-> <<>>]
JsonResponse(kind, value) ==
    [status |-> 200, kind |-> kind, error |-> "", valid_measures |-> <<>>,
     results |-> value]

RetUnset == [kind |-> "unset", val |-> <<>>]
RetNone == [kind |-> "none", val |-> <<>>]
RetValue(v) == [kind |-> "value", val |-> v]

----------------------------------------------------------------------------
(* Request Validator *)

\* The validator with the teapot check placed after the field checks.
decorated_function_teapot_last(r) ==
    IF ~r.is_json THEN "InvalidContentType"
    ELSE IF r.body = "malformed" THEN "BadRequest"
    ELSE IF r.body = "nonobject" THEN "UnhandledException"
    ELSE IF r.data.zip = Absent THEN "MissingZip"
    ELSE IF ~(r.data.zip.t = "str" /\ isdigit(r.data.zip.s) /\ Len(r.data.zip.s) = 5)
         THEN "InvalidZip"
    ELSE IF r.data.measure_name = Absent THEN "MissingMeasure"
    ELSE IF r.data.measure_name.t = "list" THEN "UnhandledException"
    ELSE IF ~(r.data.measure_name.t = "str" /\ r.data.measure_name.s \in VALID_MEASURES)
         THEN "InvalidMeasure"
    ELSE IF r.data.coffee = Str(teapot) THEN "Teapot"
    ELSE "ok"

\* The outcome of decorated_function before it calls the handler.
decorated_function(r) ==
    IF ~r.is_json THEN "InvalidContentType"
    ELSE IF r.body = "malformed" THEN "BadRequest"            \* get_json() aborts with 400
    ELSE IF r.body = "nonobject" THEN "UnhandledException"    \* data.get: AttributeError
    ELSE IF r.data.coffee = Str(teapot) THEN "Teapot"
    ELSE IF r.data.zip = Absent THEN "MissingZip"
    ELSE IF ~(r.data.zip.t = "str" /\ isdigit(r.data.zip.s) /\ Len(r.data.zip.s) = 5)
         THEN "InvalidZip"
    ELSE IF r.data.measure_name = Absent THEN "MissingMeasure"
    ELSE IF r.data.measure_name.t = "list" THEN "UnhandledException"  \* unhashable: TypeError
    ELSE IF ~(r.data.measure_name.t = "str" /\ r.data.measure_name.s \in VALID_MEASURES)
         THEN "InvalidMeasure"
    ELSE "ok"

ValidationOutcomes ==
    {"InvalidContentType", "Teapot", "MissingZip", "InvalidZip", "MissingMeasure",
     "InvalidMeasure"}

InvalidMeasureResponse ==
    [status |-> 400, kind |-> "error", error |-> "Invalid measure_name",
     valid_measures |-> sorted(VALID_MEASURES), results |-> <<>>]

Rejection(outcome) ==
    CASE outcome = "InvalidContentType" ->
            ErrorResponse(400, "Content-Type must be application/json")
      [] outcome = "BadRequest" -> ErrorResponse(400, "Bad request")
      [] outcome = "UnhandledException" -> ErrorResponse(500, "Internal server error")
      [] outcome = "Teapot" -> EmptyResponse(418)
      [] outcome = "MissingZip" -> ErrorResponse(400, "zip is required")
      [] outcome = "InvalidZip" -> ErrorResponse(400, "zip must be a 5-digit string")
      [] outcome = "MissingMeasure" -> ErrorResponse(400, "measure_name is required")
      [] outcome = "InvalidMeasure" -> InvalidMeasureResponse

----------------------------------------------------------------------------
(* SQL and row conversion *)

\* SQL `a = b` is true: neither side is NULL and the values are equal.
SqlEq(a, b) == a # None /\ b # None /\ a = b

\* SELECT DISTINCT county, state_abbreviation, county_code FROM zip_county WHERE zip = ?
CountyTuples(zip_code) ==
    {[county |-> r.county, state_abbreviation |-> r.state_abbreviation,
      county_code |-> r.county_code] : r \in {x \in zip_county : SqlEq(x.zip, zip_code)}}

\* The WHERE clause without the state_code branch.
MatchesStateOnly(row, county_row, measure_name) ==
    /\ SqlEq(row.county, county_row.county)
    /\ SqlEq(row.state, county_row.state_abbreviation)
    /\ SqlEq(row.measure_name, measure_name)

\* WHERE county = ? AND (state = ? OR state_code = ?) AND measure_name = ?
\* with the parameters (county, state_abbr, county_code[:2], measure_name).
Matches(row, county_row, measure_name) ==
    /\ SqlEq(row.county, county_row.county)
    /\ \/ SqlEq(row.state, county_row.state_abbreviation)
       \/ SqlEq(row.state_code, Str(Prefix(county_row.county_code.s, 2)))
    /\ SqlEq(row.measure_name, measure_name)

\* ORDER BY on a TEXT column: NULL sorts below every text, texts by BINARY collation.
SqlLess(a, b) ==
    IF b = None THEN FALSE
    ELSE IF a = None THEN TRUE
    ELSE StrLess(a.s, b.s)

\* Ordering by the number the text denotes.
SqlLessNumeric(a, b) ==
    IF b = None THEN FALSE
    ELSE IF a = None THEN TRUE
    ELSE NumericValue(a.s) < NumericValue(b.s)

\* ORDER BY CAST(year_span AS INTEGER) DESC
OrderByYearSpanNumericDesc(rows) ==
    {p \in Perms(rows) :
        \A i, j \in 1..Len(p) : i < j => ~SqlLessNumeric(p[i].year_span, p[j].year_span)}

\* ORDER BY year_span DESC: every listing of the rows in which no row comes before
\* a row with a greater year_span.
OrderByYearSpanDesc(rows) ==
    {p \in Perms(rows) :
        \A i, j \in 1..Len(p) : i < j => ~SqlLess(p[i].year_span, p[j].year_span)}

\* The conversion without the None case.
ToStrKeepNone(val) == IF val # None THEN Str(val.s) ELSE None

\* str(val) if val is not None else ""
ToStr(val) == IF val # None THEN Str(val.s) ELSE Str(<<>>)

\* dict(zip(columns, [...]))
RowToDict(row) == [c \in ColumnSet |-> ToStr(row[c])]

\* get_table_info's result for the two tables of the store.
TableInfo ==
    <<[name |-> "county_health_rankings", columns |-> columns],
      [name |-> "zip_county",
       columns |-> <<"zip", "county", "state_abbreviation", "county_code">>]>>

\* SELECT DISTINCT measure_name ... WHERE measure_name IS NOT NULL AND measure_name != ''
DistinctMeasures ==
    {r.measure_name.s : r \in {x \in county_health_rankings :
                                   x.measure_name # None /\ x.measure_name.s # <<>>}}

----------------------------------------------------------------------------
(* The service *)

Ops == {"county_data", "measures", "tables", "get_valid_measures"}

ServiceInit ==
    /\ proc = "service"
    /\ zip_county \in {z \in SUBSET ZipRows : Cardinality(z) <= MaxZipRows}
    /\ county_health_rankings \in {h \in SUBSET HealthRows : Cardinality(h) <= MaxHealthRows}
    /\ pc = "idle"
    /\ op = "none"
    /\ req = NoRequest
    /\ response = NoResponse
    /\ db = FALSE
    /\ open_conns = 0
    /\ accesses = 0
    /\ county_results = <<>>
    /\ idx = 0
    /\ results = <<>>
    /\ retval = RetUnset
    /\ exc = FALSE
    /\ fault = FALSE

\* A request arrives and is routed.  POST /county_data enters the validator, the
\* other operations enter their function.
receive ==
    /\ proc = "service"
    /\ pc = "idle"
    /\ \E o \in Ops :
         /\ op' = o
         /\ IF o = "county_data"
            THEN req' \in Requests /\ pc' = "validate"
            ELSE req' = NoRequest /\ pc' = o
    /\ UNCHANGED <<proc, zip_county, county_health_rankings, response, db, open_conns,
                   accesses, county_results, idx, results, retval, exc, lvars, fault>>

\* The response is sent and the worker takes the next request with fresh locals.
send_response ==
    /\ pc = "done"
    /\ pc' = "idle"
    /\ op' = "none"
    /\ req' = NoRequest
    /\ response' = NoResponse
    /\ db' = FALSE
    /\ accesses' = 0
    /\ county_results' = <<>>
    /\ idx' = 0
    /\ results' = <<>>
    /\ retval' = RetUnset
    /\ exc' = FALSE
    /\ fault' = FALSE
    /\ UNCHANGED <<proc, zip_county, county_health_rankings, open_conns, lvars>>

\* The validator building the catalog from the store (get_valid_measures) instead
\* of VALID_MEASURES.
validate_request_from_store ==
    /\ pc = "validate"
    /\ LET outcome == decorated_function(req)
       IN  /\ IF outcome = "ok"
              THEN pc' = "get_county_data" /\ response' = response
              ELSE pc' = "done" /\ response' = Rejection(outcome)
           /\ accesses' = IF outcome = "InvalidMeasure" THEN accesses + 2 ELSE accesses
    /\ UNCHANGED <<proc, zip_county, county_health_rankings, op, req, db, open_conns,
                   county_results, idx, results, retval, exc, lvars, fault>>

\* decorated_function: reject, or call county_data.
validate_request ==
    /\ pc = "validate"
    /\ LET outcome == decorated_function(req)
       IN  IF outcome = "ok"
           THEN pc' = "get_county_data" /\ response' = response
           ELSE pc' = "done" /\ response' = Rejection(outcome)
    /\ UNCHANGED <<proc, zip_county, county_health_rankings, op, req, db, open_conns,
                   accesses, county_results, idx, results, retval, exc, lvars, fault>>

\* db = get_db(); if not db: return None.  sqlite3.connect either succeeds or
\* raises sqlite3.Error, which get_db turns into None.
get_db(at, next, finally) ==
    /\ pc = at
    /\ accesses' = accesses + 1
    /\ \/ /\ db' = TRUE /\ open_conns' = open_conns + 1 /\ pc' = next
          /\ retval' = retval /\ fault' = fault
       \/ /\ db' = FALSE /\ open_conns' = open_conns /\ pc' = finally
          /\ retval' = RetNone /\ fault' = TRUE
    /\ UNCHANGED <<proc, zip_county, county_health_rankings, op, req, response,
                   county_results, idx, results, exc, lvars>>

\* A finally clause that forgets the connection when no value was returned.
close_db_on_return_only(at, next) ==
    /\ pc = at
    /\ db' = IF retval.kind = "value" THEN FALSE ELSE db
    /\ open_conns' = IF db /\ retval.kind = "value" THEN open_conns - 1 ELSE open_conns
    /\ pc' = next
    /\ UNCHANGED <<proc, zip_county, county_health_rankings, op, req, response, accesses,
                   county_results, idx, results, retval, exc, lvars, fault>>

\* finally: if db: db.close()
close_db(at, next) ==
    /\ pc = at
    /\ db' = FALSE
    /\ open_conns' = IF db THEN open_conns - 1 ELSE open_conns
    /\ pc' = next
    /\ UNCHANGED <<proc, zip_county, county_health_rankings, op, req, response, accesses,
                   county_results, idx, results, retval, exc, lvars, fault>>

get_county_data_connect == get_db("get_county_data", "resolve", "gcd_finally")

\* The ZIP query, and the early return on an empty county_results.
get_county_data_resolve ==
    /\ pc = "resolve"
    /\ accesses' = accesses + 1
    /\ \/ /\ retval' = RetNone                      \* sqlite3.Error
          /\ fault' = TRUE
          /\ pc' = "gcd_finally"
          /\ UNCHANGED <<county_results, idx>>
       \/ /\ county_results' \in Perms(CountyTuples(req.data.zip))
          /\ fault' = fault
          /\ IF county_results' = <<>>
             THEN retval' = RetValue(<<>>) /\ pc' = "gcd_finally" /\ idx' = idx
             ELSE retval' = retval /\ pc' = "lookup" /\ idx' = 1
    /\ UNCHANGED <<proc, zip_county, county_health_rankings, op, req, response, db,
                   open_conns, results, exc, lvars>>

\* One iteration of `for county_row in county_results`.
get_county_data_lookup ==
    /\ pc = "lookup"
    /\ LET county_row == county_results[idx]
       IN  IF county_row.county_code = None
           THEN \* county_code[:2] on None: TypeError, not caught by except sqlite3.Error
                /\ exc' = TRUE
                /\ pc' = "gcd_finally"
                /\ UNCHANGED <<accesses, results, idx, retval, fault>>
           ELSE /\ accesses' = accesses + 1
                /\ exc' = exc
                /\ \/ /\ retval' = RetNone           \* sqlite3.Error
                      /\ fault' = TRUE
                      /\ pc' = "gcd_finally"
                      /\ UNCHANGED <<results, idx>>
                   \/ \E rows \in OrderByYearSpanDesc(
                              {r \in county_health_rankings :
                                  Matches(r, county_row, req.data.measure_name)}) :
                        /\ results' = results \o [i \in 1..Len(rows) |-> RowToDict(rows[i])]
                        /\ fault' = fault
                        /\ IF idx = Len(county_results)
                           THEN retval' = RetValue(results') /\ pc' = "gcd_finally"
                                /\ idx' = idx
                           ELSE retval' = retval /\ pc' = "lookup" /\ idx' = idx + 1
    /\ UNCHANGED <<proc, zip_county, county_health_rankings, op, req, response, db,
                   open_conns, county_results, lvars>>

get_county_data_finally == close_db("gcd_finally", "county_data")

\* county_data treating an empty result like a failed lookup.
county_data_empty_as_error ==
    /\ pc = "county_data"
    /\ response' =
         IF exc THEN ErrorResponse(500, "Internal server error")
         ELSE IF retval.kind = "none" \/ Len(retval.val) = 0
              THEN ErrorResponse(500, "Database error occurred")
         ELSE JsonResponse("results", retval.val)
    /\ pc' = "done"
    /\ UNCHANGED <<proc, zip_county, county_health_rankings, op, req, db, open_conns,
                   accesses, county_results, idx, results, retval, exc, lvars, fault>>

\* county_data after get_county_data returned or raised.
county_data ==
    /\ pc = "county_data"
    /\ response' =
         IF exc THEN ErrorResponse(500, "Internal server error")
         ELSE IF retval.kind = "none" THEN ErrorResponse(500, "Database error occurred")
         ELSE IF Len(retval.val) = 0
              THEN ErrorResponse(404, "No data found for the given parameters")
         ELSE JsonResponse("results", retval.val)
    /\ pc' = "done"
    /\ UNCHANGED <<proc, zip_county, county_health_rankings, op, req, db, open_conns,
                   accesses, county_results, idx, results, retval, exc, lvars, fault>>

\* GET /measures
get_measures ==
    /\ pc = "measures"
    /\ response' = JsonResponse("measures", sorted(VALID_MEASURES))
    /\ pc' = "done"
    /\ UNCHANGED <<proc, zip_county, county_health_rankings, op, req, db, open_conns,
                   accesses, county_results, idx, results, retval, exc, lvars, fault>>

get_table_info_connect == get_db("tables", "table_info", "gti_finally")

\* The sqlite_master query and the PRAGMA per table.
get_table_info_query ==
    /\ pc = "table_info"
    /\ accesses' = accesses + 1
    /\ \/ retval' = RetNone /\ fault' = TRUE        \* sqlite3.Error
       \/ retval' = RetValue(TableInfo) /\ fault' = fault
    /\ pc' = "gti_finally"
    /\ UNCHANGED <<proc, zip_county, county_health_rankings, op, req, response, db,
                   open_conns, county_results, idx, results, exc, lvars>>

get_table_info_finally == close_db("gti_finally", "get_tables")

\* GET /tables
get_tables ==
    /\ pc = "get_tables"
    /\ response' =
         IF retval.kind = "none" THEN ErrorResponse(500, "Database error occurred")
         ELSE JsonResponse("tables", retval.val)
    /\ pc' = "done"
    /\ UNCHANGED <<proc, zip_county, county_health_rankings, op, req, db, open_conns,
                   accesses, county_results, idx, results, retval, exc, lvars, fault>>

get_valid_measures_connect == get_db("get_valid_measures", "measures_query", "gvm_finally")

get_valid_measures_query ==
    /\ pc = "measures_query"
    /\ accesses' = accesses + 1
    /\ \/ retval' = RetNone /\ fault' = TRUE        \* sqlite3.Error
       \/ retval' = RetValue(sorted(DistinctMeasures)) /\ fault' = fault
    /\ pc' = "gvm_finally"
    /\ UNCHANGED <<proc, zip_county, county_health_rankings, op, req, response, db,
                   open_conns, county_results, idx, results, exc, lvars>>

get_valid_measures_finally == close_db("gvm_finally", "done")

ServiceNext ==
    \/ receive
    \/ validate_request
    \/ get_county_data_connect
    \/ get_county_data_resolve
    \/ get_county_data_lookup
    \/ get_county_data_finally
    \/ county_data
    \/ get_measures
    \/ get_table_info_connect
    \/ get_table_info_query
    \/ get_table_info_finally
    \/ get_tables
    \/ get_valid_measures_connect
    \/ get_valid_measures_query
    \/ get_valid_measures_finally
    \/ send_response

----------------------------------------------------------------------------
(* The CSV loader *)

\* batch_size of main() is 1000; the model uses a small value so that files of a
\* few rows fill a batch.
batch_size == 2
MaxCsvRows == 3

common_columns ==
    {<<"z","i","p">>, <<"c","o","u","n","t","y">>, <<"s","t","a","t","e">>,
     <<"c","o","u","n","t","y","_","c","o","d","e">>,
     <<"s","t","a","t","e","_","c","o","d","e">>,
     <<"m","e","a","s","u","r","e","_","n","a","m","e">>,
     <<"f","i","p","s","c","o","d","e">>}

\* str.lower() on one character.
LowerChar(c) ==
    IF Ord[c] \in 65..90 THEN CHOOSE d \in DOMAIN Ord : Ord[d] = Ord[c] + 32 ELSE c
lower(cs) == [i \in 1..Len(cs) |-> LowerChar(cs[i])]

\* str.strip(): leading and trailing blanks removed.
RECURSIVE strip(_)
strip(cs) ==
    IF cs = <<>> THEN <<>>
    ELSE IF Head(cs) = " " THEN strip(Tail(cs))
    ELSE IF cs[Len(cs)] = " " THEN strip(SubSeq(cs, 1, Len(cs) - 1))
    ELSE cs

\* [h.lower().strip() for h in next(reader)]
Headers(line) == [i \in 1..Len(line) |-> strip(lower(line[i]))]

\* [val if val.strip() != '' else None for val in row]
processed_row(row) ==
    [i \in 1..Len(row) |-> IF strip(row[i]) # <<>> THEN Str(row[i]) ELSE None]

NoTable == [exists |-> FALSE, cols |-> <<>>, indexes |-> {}, rows |-> <<>>]
OldTable ==
    [exists |-> TRUE, cols |-> <<<<"z","i","p">>>>, indexes |-> {<<"z","i","p">>},
     rows |-> <<<<Str(Zip02139)>>>>]

\* CREATE TABLE fails on a column list that is empty, has an empty name or a
\* repeated name.
CreateTableFails(cols) ==
    \/ cols = <<>>
    \/ \E i \in 1..Len(cols) : cols[i] = <<>>
    \/ \E i, j \in 1..Len(cols) : i # j /\ cols[i] = cols[j]

\* cursor.executemany(insert_sql, batch): the rows are bound and inserted in order;
\* a row whose length is not the number of placeholders raises ProgrammingError
\* and ends the call, the rows before it inserted.
RECURSIVE GoodPrefix(_, _)
GoodPrefix(rows, n) ==
    IF rows = <<>> \/ Len(Head(rows)) # n THEN <<>>
    ELSE <<Head(rows)>> \o GoodPrefix(Tail(rows), n)

CsvHeaderLines ==
    {<<<<"Z","i","p">>, <<" ","C","o","u","n","t","y">>>>,
     <<<<"Z","i","p">>, <<"z","i","p"," ">>>>}
CsvRowLines ==
    {<<Zip02139, Kent>>, <<Zip02139, <<" ">>>>, <<Zip02139, Kent, MA>>, <<Zip02139>>}

RECURSIVE SeqsUpTo(_, _)
SeqsUpTo(S, n) ==
    IF n = 0 THEN {<<>>}
    ELSE LET shorter == SeqsUpTo(S, n - 1)
         IN  shorter \cup {Append(q, x) : q \in shorter, x \in S}

\* args_ok: len(sys.argv) = 3.  readable: open() succeeds.  lines: the rows the
\* reader yields.
CsvInputs ==
    {[args_ok |-> TRUE, readable |-> TRUE, lines |-> <<h>> \o rows] :
        h \in CsvHeaderLines, rows \in SeqsUpTo(CsvRowLines, MaxCsvRows)}
    \cup {[args_ok |-> TRUE, readable |-> TRUE, lines |-> <<>>],
          [args_ok |-> TRUE, readable |-> FALSE, lines |-> <<>>],
          [args_ok |-> FALSE, readable |-> TRUE, lines |-> <<>>]}

LoaderInit ==
    /\ proc = "loader"
    /\ l_pc = "main"
    /\ csv \in CsvInputs
    /\ disk0 \in {NoTable, OldTable}
    /\ disk = disk0
    /\ table = disk0
    /\ in_txn = FALSE
    /\ headers = <<>>
    /\ row_i = 0
    /\ batch = <<>>
    /\ conn_open = FALSE
    /\ committed = FALSE
    /\ exit_code = -1

\* Argument check, then sqlite3.connect and conn.cursor().
main_connect ==
    /\ l_pc = "main"
    /\ IF ~csv.args_ok
       THEN l_pc' = "exited" /\ exit_code' = 1 /\ conn_open' = conn_open
       ELSE l_pc' = "read_header" /\ exit_code' = exit_code /\ conn_open' = TRUE
    /\ UNCHANGED <<proc, svars, csv, table, disk, disk0, in_txn, headers, row_i, batch,
                   committed>>

\* open(), csv.reader, next(reader)
main_read_header ==
    /\ l_pc = "read_header"
    /\ IF ~csv.readable \/ csv.lines = <<>>
       THEN l_pc' = "except" /\ UNCHANGED <<headers, row_i>>   \* OSError, StopIteration
       ELSE l_pc' = "drop" /\ headers' = Headers(csv.lines[1]) /\ row_i' = 1
    /\ UNCHANGED <<proc, svars, csv, table, disk, disk0, in_txn, batch, conn_open,
                   committed, exit_code>>

\* A statement run outside a transaction takes effect in the store at once.
Autocommit(t) == table' = t /\ disk' = (IF in_txn THEN disk ELSE t)

\* DROP TABLE IF EXISTS: DDL, for which the sqlite3 module opens no transaction.
main_drop_table ==
    /\ l_pc = "drop"
    /\ \/ l_pc' = "except" /\ UNCHANGED <<table, disk>>         \* sqlite3.Error
       \/ l_pc' = "create" /\ Autocommit(NoTable)
    /\ UNCHANGED <<proc, svars, csv, disk0, in_txn, headers, row_i, batch, conn_open,
                   committed, exit_code>>

\* CREATE TABLE
main_create_table ==
    /\ l_pc = "create"
    /\ IF CreateTableFails(headers)
       THEN l_pc' = "except" /\ UNCHANGED <<table, disk>>
       ELSE /\ l_pc' = "index"
            /\ Autocommit([exists |-> TRUE, cols |-> headers, indexes |-> {}, rows |-> <<>>])
    /\ UNCHANGED <<proc, svars, csv, disk0, in_txn, headers, row_i, batch, conn_open,
                   committed, exit_code>>

\* CREATE INDEX for the headers in common_columns
main_create_indexes ==
    /\ l_pc = "index"
    /\ Autocommit([table EXCEPT !.indexes =
                      {headers[i] : i \in {k \in 1..Len(headers) : lower(headers[k]) \in common_columns}}])
    /\ l_pc' = "rows"
    /\ UNCHANGED <<proc, svars, csv, disk0, in_txn, headers, row_i, batch, conn_open,
                   committed, exit_code>>

\* executemany: the implicit BEGIN before an INSERT, then the rows.
executemany(rows, next) ==
    LET good == GoodPrefix(rows, Len(headers))
    IN  /\ in_txn' = TRUE
        /\ table' = [table EXCEPT !.rows = @ \o good]
        /\ l_pc' = IF Len(good) = Len(rows) THEN next ELSE "except"

\* One iteration of `for row in reader`, with the flush of a full batch.
main_read_row ==
    /\ l_pc = "rows"
    /\ row_i < Len(csv.lines)
    /\ row_i' = row_i + 1
    /\ LET b == Append(batch, processed_row(csv.lines[row_i + 1]))
       IN  IF Len(b) >= batch_size
           THEN executemany(b, "rows") /\ batch' = <<>>
           ELSE batch' = b /\ UNCHANGED <<table, in_txn, l_pc>>
    /\ UNCHANGED <<proc, svars, csv, disk, disk0, headers, conn_open, committed, exit_code>>

\* if batch: executemany(batch)
main_insert_remaining ==
    /\ l_pc = "rows"
    /\ row_i = Len(csv.lines)
    /\ IF batch # <<>>
       THEN executemany(batch, "commit")
       ELSE l_pc' = "commit" /\ UNCHANGED <<table, in_txn>>
    /\ UNCHANGED <<proc, svars, csv, disk, disk0, headers, row_i, batch, conn_open,
                   committed, exit_code>>

\* conn.commit()
main_commit ==
    /\ l_pc = "commit"
    /\ \/ l_pc' = "except" /\ UNCHANGED <<disk, in_txn, committed>>     \* sqlite3.Error
       \/ l_pc' = "finally" /\ disk' = table /\ in_txn' = FALSE /\ committed' = TRUE
    /\ UNCHANGED <<proc, svars, csv, table, disk0, headers, row_i, batch, conn_open,
                   exit_code>>

\* except Exception: print, conn.rollback(), sys.exit(1)
main_except ==
    /\ l_pc = "except"
    /\ table' = disk
    /\ in_txn' = FALSE
    /\ exit_code' = 1
    /\ l_pc' = "finally"
    /\ UNCHANGED <<proc, svars, csv, disk, disk0, headers, row_i, batch, conn_open,
                   committed>>

\* finally: conn.close(); then the process ends.
main_finally ==
    /\ l_pc = "finally"
    /\ conn_open' = FALSE
    /\ exit_code' = IF exit_code = -1 THEN 0 ELSE exit_code
    /\ l_pc' = "exited"
    /\ UNCHANGED <<proc, svars, csv, table, disk, disk0, in_txn, headers, row_i, batch,
                   committed>>

LoaderNext ==
    \/ main_connect
    \/ main_read_header
    \/ main_drop_table
    \/ main_create_table
    \/ main_create_indexes
    \/ main_read_row
    \/ main_insert_remaining
    \/ main_commit
    \/ main_except
    \/ main_finally

LoaderRest ==
    /\ l_pc = "off"
    /\ csv = [args_ok |-> TRUE, readable |-> TRUE, lines |-> <<>>]
    /\ table = NoTable
    /\ disk = NoTable
    /\ disk0 = NoTable
    /\ in_txn = FALSE
    /\ headers = <<>>
    /\ row_i = 0
    /\ batch = <<>>
    /\ conn_open = FALSE
    /\ committed = FALSE
    /\ exit_code = -1

ServiceRest ==
    /\ zip_county = {}
    /\ county_health_rankings = {}
    /\ pc = "off"
    /\ op = "none"
    /\ req = NoRequest
    /\ response = NoResponse
    /\ db = FALSE
    /\ open_conns = 0
    /\ accesses = 0
    /\ county_results = <<>>
    /\ idx = 0
    /\ results = <<>>
    /\ retval = RetUnset
    /\ exc = FALSE
    /\ fault = FALSE

Init == (ServiceInit /\ LoaderRest) \/ (LoaderInit /\ ServiceRest)
Next == ServiceNext \/ LoaderNext
Spec == Init /\ [][Next]_vars

----------------------------------------------------------------------------
(* Properties *)

Range(f) == {f[i] : i \in 1..Len(f)}

\* A POST /county_data request has been answered.
Answered == proc = "service" /\ op = "county_data" /\ pc = "done"

Ascii5Digits(v) ==
    v.t = "str" /\ Len(v.s) = 5 /\ \A i \in 1..Len(v.s) : v.s[i] \in AsciiDigits

InCatalog(v) == v.t = "str" /\ v.s \in VALID_MEASURES

JsonObject(r) == r.is_json /\ r.body = "object"

\* A stored row as the response is to show it: text as it is, NULL as "".
Rendered(r) == [c \in ColumnSet |-> IF r[c] = None THEN Str(<<>>) ELSE r[c]]

\* The rows the measure query is to select for one county tuple.
Selected(ct, m) ==
    {r \in county_health_rankings :
        /\ r.county # None /\ r.county = ct.county
        /\ r.measure_name # None /\ r.measure_name = m
        /\ \/ r.state # None /\ r.state = ct.state_abbreviation
           \/ r.state_code # None /\ r.state_code.s = Prefix(ct.county_code.s, 2)}

\* C1, as stated: every POST /county_data request whose body has coffee = "teapot"
\* is answered 418 with an empty body, whatever else the request holds.
C1_TeapotAlways418 ==
    (Answered /\ req.data.coffee = Str(teapot))
        => (response.status = 418 /\ response.kind = "empty")

\* C1, amended: when the Content-Type is JSON and the body is a JSON object with
\* coffee = "teapot", the answer is 418 with an empty body, whatever zip and
\* measure_name are.
C1_TeapotBeforeFieldChecks ==
    (Answered /\ JsonObject(req) /\ req.data.coffee = Str(teapot))
        => (response.status = 418 /\ response.kind = "empty" /\ response.error = ""
            /\ response.valid_measures = <<>> /\ response.results = <<>>)

C1_Witness ==
    /\ Answered /\ JsonObject(req) /\ req.data.coffee = Str(teapot)
    /\ req.data.zip = Str(<<"1","2","3","4">>)
    /\ req.data.measure_name = List
    /\ response.status = 418

IsSortedCatalog(vm) ==
    /\ Len(vm) = 12
    /\ Range(vm) = VALID_MEASURES
    /\ \A i \in 1..(Len(vm) - 1) : StrLess(vm[i], vm[i + 1])

ValidLookup(r) ==
    /\ JsonObject(r) /\ r.data.coffee # Str(teapot)
    /\ Ascii5Digits(r.data.zip) /\ InCatalog(r.data.measure_name)

ZipUnknown == \A z \in zip_county : z.zip # req.data.zip

\* C3, as stated: a valid request whose zip is not in zip_county is answered 404,
\* never 500.
C3_UnknownZipAlways404 ==
    (Answered /\ ValidLookup(req) /\ ZipUnknown) => response.status = 404

\* C3, amended: a valid request whose zip is not in zip_county, handled without a
\* storage fault, gets an empty county list, an empty list from get_county_data
\* and the answer 404.
C3_UnknownZip404 ==
    (Answered /\ ValidLookup(req) /\ ZipUnknown /\ ~fault)
        => (county_results = <<>> /\ retval = RetValue(<<>>) /\ response.status = 404)

C3_Witness ==
    /\ Answered /\ ValidLookup(req) /\ ZipUnknown /\ ~fault
    /\ zip_county # {}
    /\ accesses = 2
    /\ response.status = 404

MA01 == <<"M","A","0","1">>

\* C4, as stated: a record with state_code "MA01" (county and measure matching) is
\* returned for a county tuple with state_abbreviation "NY" whose county_code
\* starts with "MA".
C4_StateCodeMA01Matches ==
    (Answered /\ retval.kind = "value")
        => \A ct \in Range(county_results) : \A r \in county_health_rankings :
              (/\ ct.state_abbreviation = Str(NY)
               /\ ct.county_code # None /\ Prefix(ct.county_code.s, 2) = MA
               /\ r.state_code = Str(MA01)
               /\ r.county = ct.county
               /\ r.measure_name = req.data.measure_name)
                  => Rendered(r) \in Range(response.results)

\* C4, amended: in a lookup that completes, a record whose state_code equals the
\* first two characters of the tuple's county_code (county and measure matching) is
\* returned, also when its state differs from the tuple's state_abbreviation.
C4_StateCodeBranchMatches ==
    (Answered /\ retval.kind = "value")
        => \A ct \in Range(county_results) : \A r \in county_health_rankings :
              (/\ ct.county_code # None
               /\ r.state_code = Str(Prefix(ct.county_code.s, 2))
               /\ r.county # None /\ r.county = ct.county
               /\ r.measure_name = req.data.measure_name)
                  => Rendered(r) \in Range(response.results)

C4_Witness ==
    /\ Answered /\ response.status = 200
    /\ \E ct \in Range(county_results) : \E r \in county_health_rankings :
          /\ ct.state_abbreviation = Str(NY)
          /\ ct.county_code = Str(MA01)
          /\ r.state_code = Str(MA) /\ r.state = Str(MA)
          /\ r.county = ct.county
          /\ r.measure_name = req.data.measure_name
          /\ Rendered(r) \in Range(response.results)

\* The validator called the handler.
Passed == pc = "get_county_data" \/ accesses > 0

\* C5: a JSON-object request without teapot passes the validator exactly when zip
\* is five ASCII digits and measure_name is in the catalog, and a zip that is
\* present and not five ASCII digits is rejected as InvalidZip.
C5_PassesIffAsciiZipAndCatalogMeasure ==
    (/\ proc = "service" /\ op = "county_data" /\ pc # "validate"
     /\ JsonObject(req) /\ req.data.coffee # Str(teapot))
        => /\ Passed <=> (Ascii5Digits(req.data.zip) /\ InCatalog(req.data.measure_name))
           /\ (req.data.zip # Absent /\ ~Ascii5Digits(req.data.zip))
                 => (pc = "done" /\ response.status = 400
                     /\ response.error = "zip must be a 5-digit string")

\* C6: while the validator runs, and when a request ends in a validation outcome,
\* no connection has been opened and no statement executed for it.
C6_NoStorageAccessBeforeValidation ==
    (/\ proc = "service" /\ op = "county_data"
     /\ \/ pc = "validate"
        \/ pc = "done" /\ response \in {Rejection(o) : o \in ValidationOutcomes})
        => (accesses = 0 /\ ~db)

C6_Witness ==
    /\ Answered /\ accesses = 0
    /\ response.status = 400 /\ response.error = "Invalid measure_name"

\* C7: once get_county_data, get_table_info, get_valid_measures or the loader is
\* over, no connection it opened is still open.
C7_ConnectionsReleased ==
    /\ (proc = "service" /\ pc \in {"idle", "validate", "county_data", "get_tables", "done"})
          => (open_conns = 0 /\ ~db)
    /\ (proc = "loader" /\ l_pc = "exited") => ~conn_open

C7_Witness ==
    /\ proc = "service" /\ pc = "county_data"
    /\ exc /\ accesses >= 2
    /\ open_conns = 0

BlockSize(i) == Cardinality(Selected(county_results[i], req.data.measure_name))

RECURSIVE BlockStart(_)
BlockStart(i) == IF i = 1 THEN 0 ELSE BlockStart(i - 1) + BlockSize(i - 1)

Block(i) == SubSeq(response.results, BlockStart(i) + 1, BlockStart(i) + BlockSize(i))

\* C8: a 200 result is, county tuple after county tuple in the resolver's order,
\* the tuple's matching records, each block in descending string order of year_span.
C8_ConcatenatedBlocksDescending ==
    (Answered /\ response.status = 200)
        => /\ Len(response.results) = BlockStart(Len(county_results) + 1)
           /\ \A i \in 1..Len(county_results) :
                /\ Range(Block(i)) = {Rendered(r) : r \in Selected(county_results[i], req.data.measure_name)}
                /\ \A j, k \in 1..BlockSize(i) :
                      j < k => ~StrLess(Block(i)[j].year_span.s, Block(i)[k].year_span.s)

C8_Witness ==
    /\ Answered /\ response.status = 200
    /\ Len(county_results) = 2
    /\ Len(response.results) = 3
    /\ \E i \in 1..2 : /\ BlockSize(i) = 2
                       /\ Block(i)[1].year_span.s = <<"9">>
                       /\ Block(i)[2].year_span.s = <<"1","0">>
    /\ StrLess(response.results[1].year_span.s, response.results[2].year_span.s)

\* C9: a loader run that fails leaves the store as it was and exits 1; exit 0
\* comes only after a commit.
C9_FailedLoadChangesNothing ==
    (proc = "loader" /\ l_pc = "exited")
        => /\ exit_code = 0 => committed
           /\ ~committed => (exit_code = 1 /\ disk = disk0)

\* C10: every value of every record of a 200 answer is a string, the stored text
\* or "" for NULL.
C10_AllValuesStrings ==
    (Answered /\ response.status = 200)
        => \A i \in 1..Len(response.results) :
              /\ \A c \in ColumnSet : response.results[i][c].t = "str"
              /\ \E r \in county_health_rankings : response.results[i] = Rendered(r)

C10_Witness ==
    /\ Answered /\ response.status = 200
    /\ \E i \in 1..Len(response.results) :
          /\ response.results[i].raw_value = Str(<<>>)
          /\ response.results[i].year_span = Str(<<"1","0">>)

====
